---- MODULE Spec2Model ----
(***************************************************************************)
(* Model of the Feishu/Lark image upload script                            *)
(* (internal/builtin_skills/feishu-upload-image/scripts/upload_image.py):  *)
(* load_config, the FeishuImageUploader class and main.                    *)
(*                                                                         *)
(* Text is a sequence of one-character strings, so that startswith and     *)
(* base64.b64decode are computed rather than assumed.  A long inline       *)
(* payload is written [rep |-> n, text |-> t]: n copies of the quad "AAAA" *)
(* followed by the characters t; isNone marks Python's None.  For plain    *)
(* strings Python's None is the value None.                                *)
(* A message is a sequence of strings (the parts of an f-string).          *)
(***************************************************************************)
EXTENDS Integers, Sequences, FiniteSets, TLC

\* ------------------------------------------------------------- bounds
\* Buffer sizes tried around the limit: MaxImageSize - SizeSpread .. + SizeSpread.
SizeSpread == 1
\* Calls made on one uploader instance in SpecApi.
MaxCalls == 3

\* ---------------------------------------------------------- constants
None == "<None>"

\* upload_from_reader: the limit of `size > 10 * 1024 * 1024`.
MaxImageSize == 10 * 1024 * 1024

AUTH_ENDPOINT == "/open-apis/auth/v3/app_access_token/internal"
UPLOAD_ENDPOINT == "/open-apis/im/v1/images"

\* Python truthiness of an Optional[str].
Truthy(v) == v # None /\ v # ""

\* ------------------------------------------------------------- text
Str(t) == [isNone |-> FALSE, rep |-> 0, text |-> t]

Rep(n, t) == [isNone |-> FALSE, rep |-> n, text |-> t]

NoText == [isNone |-> TRUE, rep |-> 0, text |-> <<>>]

TextLen(s) == 4 * s.rep + Len(s.text)

\* Python truthiness of an Optional[str] held as text.
TruthyText(s) == ~s.isNone /\ TextLen(s) > 0

CharAt(s, i) == IF i <= 4 * s.rep THEN "A" ELSE s.text[i - 4 * s.rep]

\* str.startswith(prefix), prefix a plain character sequence.
StartsWith(s, p) ==
    /\ ~s.isNone
    /\ TextLen(s) >= Len(p)
    /\ \A i \in 1..Len(p) : CharAt(s, i) = p[i]

HTTP_PREFIX == <<"h", "t", "t", "p", ":", "/", "/">>
HTTPS_PREFIX == <<"h", "t", "t", "p", "s", ":", "/", "/">>

\* A variant of IsHttpUrl that tests the http:// prefix alone.
IsHttpUrlHttpOnly(s) == StartsWith(s, HTTP_PREFIX)

\* main, line 202: args.input.startswith(("http://", "https://"))
IsHttpUrl(s) == StartsWith(s, HTTP_PREFIX) \/ StartsWith(s, HTTPS_PREFIX)

\* ----------------------------------------------------------- base64
\* The standard alphabet's index of the characters the inputs use.
B64Chars == {"A", "D", "E", "H", "J", "P", "Q", "T", "U", "a", "h", "p", "s", "t", "/"}

B64Index(c) ==
    CASE c = "A" -> 0  [] c = "D" -> 3  [] c = "E" -> 4  [] c = "H" -> 7
      [] c = "J" -> 9  [] c = "P" -> 15 [] c = "Q" -> 16 [] c = "T" -> 19
      [] c = "U" -> 20 [] c = "a" -> 26 [] c = "h" -> 33 [] c = "p" -> 41
      [] c = "s" -> 44 [] c = "t" -> 45 [] c = "/" -> 63

B64_ERR_ONE_MORE == <<"Invalid base64-encoded string: number of data characters cannot be 1 more than a multiple of 4">>
B64_ERR_PADDING == <<"Incorrect padding">>

Decoded(out) == [raised |-> FALSE, msg |-> <<>>, bytes |-> out]
DecodeError(m) == [raised |-> TRUE, msg |-> m, bytes |-> <<>>]

\* binascii.a2b_base64 with strict_mode off (what base64.b64decode(data) calls
\* with validate=False): characters outside the alphabet are skipped, a
\* completed pad sequence ends the parse, leftover sextets are an error.
RECURSIVE a2b_base64(_, _, _, _, _, _)
a2b_base64(t, i, quad_pos, pads, leftchar, out) ==
    IF i > Len(t)
    THEN IF quad_pos = 0 THEN Decoded(out)
         ELSE IF quad_pos = 1 THEN DecodeError(B64_ERR_ONE_MORE)
         ELSE DecodeError(B64_ERR_PADDING)
    ELSE LET c == t[i] IN
         IF c = "="
         THEN IF quad_pos >= 2 /\ quad_pos + pads + 1 >= 4
              THEN Decoded(out)
              ELSE a2b_base64(t, i + 1, quad_pos,
                              IF quad_pos >= 2 THEN pads + 1 ELSE pads, leftchar, out)
         ELSE IF c \notin B64Chars
         THEN a2b_base64(t, i + 1, quad_pos, pads, leftchar, out)
         ELSE LET v == B64Index(c) IN
              CASE quad_pos = 0 -> a2b_base64(t, i + 1, 1, 0, v, out)
                [] quad_pos = 1 ->
                     a2b_base64(t, i + 1, 2, 0, v % 16,
                                Append(out, (leftchar * 4 + v \div 16) % 256))
                [] quad_pos = 2 ->
                     a2b_base64(t, i + 1, 3, 0, v % 4,
                                Append(out, (leftchar * 16 + v \div 4) % 256))
                [] quad_pos = 3 ->
                     a2b_base64(t, i + 1, 0, 0, 0,
                                Append(out, (leftchar * 64 + v) % 256))

\* base64.b64decode(data): [raised, msg, size, tail].  The s.rep leading quads
\* "AAAA" decode to three zero bytes each and leave quad_pos = 0; tail holds the
\* bytes decoded from s.text.
b64decode(s) ==
    LET r == a2b_base64(s.text, 1, 0, 0, 0, <<>>) IN
    [raised |-> r.raised, msg |-> r.msg,
     size |-> IF r.raised THEN 0 ELSE 3 * s.rep + Len(r.bytes),
     tail |-> r.bytes]

\* ------------------------------------------------------ exceptions
\* The outcome of a call: nothing yet, a returned value, or a raised exception.
NoOutcome == [kind |-> "none", value |-> None, type |-> None, msg |-> <<>>]
Return(v) == [kind |-> "return", value |-> v, type |-> None, msg |-> <<>>]
Raise(t, m) == [kind |-> "raise", value |-> None, type |-> t, msg |-> m]

\* ------------------------------------------------------ load_config
\* ~/.goclaw/config.json: absent, unparsable, or a JSON object whose
\* channels.feishu section holds (or lacks) app_id and app_secret.
CredValues(v) == {None, "", v}

ConfigFiles ==
    {[exists |-> FALSE, parses |-> FALSE, app_id |-> None, app_secret |-> None],
     [exists |-> TRUE, parses |-> FALSE, app_id |-> None, app_secret |-> None]}
    \cup [exists : {TRUE}, parses : {TRUE},
          app_id : CredValues("cfg_id"), app_secret : CredValues("cfg_secret")]

Environments ==
    [FEISHU_APP_ID : CredValues("env_id"), FEISHU_APP_SECRET : CredValues("env_secret")]

CREDENTIALS_HELP == <<"Error: Feishu credentials not found.",
                      "Configure in ~/.goclaw/config.json under channels.feishu:">>

\* What a print() writes: a line of text, or a JSON envelope.
TextLine(m) == [kind |-> "text", code |-> 0, image_key |-> None, msg |-> m]
JsonSuccess(key) == [kind |-> "json", code |-> 0, image_key |-> key, msg |-> <<>>]
JsonError(m) == [kind |-> "json", code |-> -1, image_key |-> None, msg |-> m]

\* load_config(): [kind, app_id, app_secret, exc]: "return" with the pair,
\* "exit" for sys.exit(1) after the printed help, "raise" for json.load's error.
load_config(c, e) ==
    IF c.exists /\ ~c.parses
    THEN [kind |-> "raise", app_id |-> None, app_secret |-> None,
          exc |-> Raise("JSONDecodeError", <<"Expecting value">>)]
    ELSE IF c.exists /\ Truthy(c.app_id) /\ Truthy(c.app_secret)
    THEN [kind |-> "return", app_id |-> c.app_id, app_secret |-> c.app_secret,
          exc |-> NoOutcome]
    ELSE IF ~Truthy(e.FEISHU_APP_ID) \/ ~Truthy(e.FEISHU_APP_SECRET)
    THEN [kind |-> "exit", app_id |-> None, app_secret |-> None, exc |-> NoOutcome]
    ELSE [kind |-> "return", app_id |-> e.FEISHU_APP_ID,
          app_secret |-> e.FEISHU_APP_SECRET, exc |-> NoOutcome]

\* ------------------------------------------------------------- main
\* The branch main takes at lines 191-209.
Variant(a) ==
    IF TruthyText(a.url) THEN "url"
    ELSE IF a.base64
         THEN IF ~TruthyText(a.input) THEN "base64_missing" ELSE "base64"
    ELSE IF TruthyText(a.input)
         THEN IF IsHttpUrl(a.input) THEN "url_input" ELSE "file"
    ELSE "help"

\* Variants of SizeExceeds: a limit one byte too high, and an exclusive limit.
SizeExceedsOffByOne(size) == size > MaxImageSize + 1
SizeExceedsAtLimit(size) == size >= MaxImageSize

\* upload_from_reader, line 76.
SizeExceeds(size) == size > MaxImageSize

\* requests.post / requests.get are called without a timeout argument: the
\* library's default, None, waits for a response without limit.
AUTH_TIMEOUT == None
GET_TIMEOUT == None
UPLOAD_TIMEOUT == None

\* ----------------------------------------------------------- inputs
\* The number of "AAAA" quads that decode to MaxImageSize - 1 bytes.
B64Rep == (MaxImageSize - 1) \div 3

InputTexts ==
    {NoText,
     Str(<<"h", "t", "t", "p", ":", "/", "/", "a">>),
     Str(<<"h", "t", "t", "p", "s", ":", "/", "/", "a">>),
     Str(<<"H", "T", "T", "P", ":", "/", "/", "a">>),
     Str(<<"h", "t", "t", "p", ":", "/", "a">>),
     Str(<<"/", "a">>),
     Str(<<"Q", "Q", "=", "=">>),
     Str(<<"Q", "U", "J", "D">>),
     Str(<<"!", "!", "!", "!">>),
     Str(<<"Q", "Q">>),
     Str(<<"Q">>),
     Str(<<"Q", "!", "Q", "=", "=">>),
     Str(<<"Q", "Q", "=", "=", "Q", "U", "J", "D">>),
     Rep(B64Rep, <<>>),
     Rep(B64Rep, <<"Q", "Q", "=", "=">>),
     Rep(B64Rep, <<"Q", "U", "E", "=">>)}

UrlFlags == {NoText, Str(<<>>), Str(<<"h", "t", "t", "p", ":", "/", "/", "u">>)}

Arguments ==
    [input : InputTexts, url : UrlFlags, base64 : BOOLEAN,
     output : {"key", "json"}, quiet : BOOLEAN]

Sizes == {0} \cup ((MaxImageSize - SizeSpread)..(MaxImageSize + SizeSpread))

\* open(file_path, "rb"): it fails, or yields a file of some size.
FileOutcomes == {[ok |-> FALSE, size |-> 0]} \cup [ok : {TRUE}, size : Sizes]

\* requests.get(url) and raise_for_status().
GetOutcomes ==
    {[kind |-> "connection_error", size |-> 0], [kind |-> "http_error", size |-> 0]}
    \cup [kind : {"ok"}, size : Sizes]

ServerMsgs == {"msg_a", "msg_b"}

\* The auth endpoint's answer: no answer (requests.post raises), a body that is
\* not JSON, or {code, msg, app_access_token}.
AuthResponses ==
    {[kind |-> "connection_error", code |-> 0, msg |-> None, app_access_token |-> None],
     [kind |-> "not_json", code |-> 0, msg |-> None, app_access_token |-> None]}
    \cup [kind : {"json"}, code : {10003}, msg : ServerMsgs, app_access_token : {None}]
    \cup [kind : {"json"}, code : {0}, msg : {"ok"},
          app_access_token : {"t-1", "t-2", "", None}]

\* The upload endpoint's answer: {code, msg, data: {image_key}}, data possibly
\* missing.
UploadResponses ==
    {[kind |-> "connection_error", code |-> 0, msg |-> None, has_data |-> FALSE, image_key |-> None],
     [kind |-> "not_json", code |-> 0, msg |-> None, has_data |-> FALSE, image_key |-> None]}
    \cup [kind : {"json"}, code : {230001}, msg : ServerMsgs, has_data : {FALSE},
          image_key : {None}]
    \cup [kind : {"json"}, code : {0}, msg : {"ok"}, has_data : {TRUE},
          image_key : {"img_1", "img_2"}]
    \cup {[kind |-> "json", code |-> 0, msg |-> "ok", has_data |-> FALSE, image_key |-> None]}

\* ------------------------------------------------------------ state
VARIABLES
    cfg,            \* ~/.goclaw/config.json
    env,            \* os.environ
    args,           \* argparse's namespace
    pc,             \* where the process is
    call,           \* the entry point running: "main", or a method called on the instance
    calls,          \* calls made on the instance (SpecApi)
    uploader,       \* the FeishuImageUploader: app_id, app_secret, _access_token
    resolved,       \* the upload_from_* method called and its argument
    reader,         \* the size of the reader's buffer, -1 with no reader
    bearer,         \* the token of the Authorization header
    inflight,       \* the network call awaiting its response
    net,            \* every network call issued, in order
    tokenReturns,   \* every value get_access_token returned, in order
    outcome,        \* what the upload (or the method called) returned or raised
    authResponse,   \* the auth endpoint's last answer
    uploadResponse, \* the upload endpoint's last answer
    stdout,
    stderr,
    exitCode        \* -1 while the process runs

vars == <<cfg, env, args, pc, call, calls, uploader, resolved, reader, bearer,
          inflight, net, tokenReturns, outcome, authResponse, uploadResponse,
          stdout, stderr, exitCode>>

NoCall == [method |-> "none", endpoint |-> "", timeout |-> None, size |-> -1, bearer |-> None]
Request(m, e, t, n, b) == [method |-> m, endpoint |-> e, timeout |-> t, size |-> n, bearer |-> b]

NoAuthResponse == [kind |-> "none", code |-> 0, msg |-> None, app_access_token |-> None]
NoUploadResponse ==
    [kind |-> "none", code |-> 0, msg |-> None, has_data |-> FALSE, image_key |-> None]

NoUploader == [app_id |-> None, app_secret |-> None, _access_token |-> None]
Unresolved == [variant |-> "none", source |-> NoText]

\* main, before load_config.
Init ==
    /\ cfg \in ConfigFiles
    /\ env \in Environments
    /\ args \in Arguments
    /\ pc = "main"
    /\ call = "main"
    /\ calls = 0
    /\ uploader = NoUploader
    /\ resolved = Unresolved
    /\ reader = -1
    /\ bearer = None
    /\ inflight = NoCall
    /\ net = <<>>
    /\ tokenReturns = <<>>
    /\ outcome = NoOutcome
    /\ authResponse = NoAuthResponse
    /\ uploadResponse = NoUploadResponse
    /\ stdout = <<>>
    /\ stderr = <<>>
    /\ exitCode = -1

\* Where control goes when the running method returns or raises: main's output
\* or except clause, or back to the caller of the instance.
After(o) ==
    IF call = "main" THEN (IF o.kind = "return" THEN "output" ELSE "except")
    ELSE "idle"

\* The running method raises e.
Raised(e) ==
    /\ outcome' = e
    /\ pc' = After(e)

\* ------------------------------------------------------------- main
\* main, lines 185-188: load_config() and the uploader's construction.  An
\* exception of load_config is outside main's try: the interpreter prints the
\* traceback and exits 1.
LoadConfig ==
    /\ pc = "main"
    /\ LET r == load_config(cfg, env) IN
       /\ uploader' = IF r.kind = "return"
                      THEN [app_id |-> r.app_id, app_secret |-> r.app_secret,
                            _access_token |-> None]
                      ELSE uploader
       /\ pc' = IF r.kind = "return" THEN "dispatch" ELSE "exited"
       /\ exitCode' = IF r.kind = "return" THEN exitCode ELSE 1
       /\ stdout' = IF r.kind = "exit"
                    THEN Append(stdout, TextLine(CREDENTIALS_HELP)) ELSE stdout
       /\ stderr' = IF r.kind = "raise"
                    THEN Append(stderr, <<"Traceback (most recent call last):", r.exc.type>>)
                    ELSE stderr
       /\ outcome' = IF r.kind = "raise" THEN r.exc ELSE outcome
    /\ UNCHANGED <<cfg, env, args, authResponse, uploadResponse, call, calls,
                   resolved, reader, bearer, inflight, net, tokenReturns>>

\* upload_from_url, line 62: requests.get(url), for --url or a positional URL.
UploadFromUrl ==
    /\ pc = "dispatch"
    /\ Variant(args) \in {"url", "url_input"}
    /\ resolved' = [variant |-> "url",
                    source |-> IF Variant(args) = "url" THEN args.url ELSE args.input]
    /\ inflight' = Request("GET", "<url>", GET_TIMEOUT, -1, None)
    /\ net' = Append(net, inflight')
    /\ pc' = "get_wait"
    /\ UNCHANGED <<cfg, env, args, authResponse, uploadResponse, call, calls,
                   uploader, reader, bearer, tokenReturns, outcome, stdout,
                   stderr, exitCode>>

\* upload_from_url, lines 62-64: the GET's outcome, raise_for_status, BytesIO.
GetResponse ==
    /\ pc = "get_wait"
    /\ inflight' = NoCall
    /\ \E o \in GetOutcomes :
         IF o.kind = "ok"
         THEN /\ reader' = o.size
              /\ pc' = "size_check"
              /\ outcome' = outcome
         ELSE /\ reader' = reader
              /\ Raised(Raise(IF o.kind = "http_error" THEN "HTTPError" ELSE "ConnectionError",
                              <<o.kind>>))
    /\ UNCHANGED <<cfg, env, args, authResponse, uploadResponse, call, calls,
                   uploader, resolved, bearer, net, tokenReturns, stdout, stderr,
                   exitCode>>

\* upload_from_file, line 57: open(file_path, "rb").
UploadFromFile ==
    /\ pc = "dispatch"
    /\ Variant(args) = "file"
    /\ resolved' = [variant |-> "file", source |-> args.input]
    /\ \E f \in FileOutcomes :
         IF f.ok
         THEN /\ reader' = f.size
              /\ pc' = "size_check"
              /\ outcome' = outcome
         ELSE /\ reader' = reader
              /\ Raised(Raise("FileNotFoundError", <<"No such file or directory">>))
    /\ UNCHANGED <<cfg, env, args, authResponse, uploadResponse, call, calls,
                   uploader, bearer, inflight, net, tokenReturns, stdout, stderr,
                   exitCode>>

\* upload_from_base64, lines 68-69: b64decode and BytesIO.
UploadFromBase64 ==
    /\ pc = "dispatch"
    /\ Variant(args) = "base64"
    /\ resolved' = [variant |-> "base64", source |-> args.input]
    /\ LET d == b64decode(args.input) IN
         IF d.raised
         THEN /\ reader' = reader
              /\ Raised(Raise("binascii.Error", d.msg))
         ELSE /\ reader' = d.size
              /\ pc' = "size_check"
              /\ outcome' = outcome
    /\ UNCHANGED <<cfg, env, args, authResponse, uploadResponse, call, calls,
                   uploader, bearer, inflight, net, tokenReturns, stdout, stderr,
                   exitCode>>

\* main, lines 196-198: --base64 without input; sys.exit passes the except clause.
Base64Missing ==
    /\ pc = "dispatch"
    /\ Variant(args) = "base64_missing"
    /\ stderr' = Append(stderr, <<"Error: base64 string required when using --base64">>)
    /\ exitCode' = 1
    /\ pc' = "exited"
    /\ UNCHANGED <<cfg, env, args, authResponse, uploadResponse, call, calls,
                   uploader, resolved, reader, bearer, inflight, net,
                   tokenReturns, outcome, stdout>>

\* main, lines 207-209: no input at all; print_help writes to stdout.
PrintHelp ==
    /\ pc = "dispatch"
    /\ Variant(args) = "help"
    /\ stdout' = Append(stdout, TextLine(<<"usage: feishu-upload-image">>))
    /\ exitCode' = 1
    /\ pc' = "exited"
    /\ UNCHANGED <<cfg, env, args, authResponse, uploadResponse, call, calls,
                   uploader, resolved, reader, bearer, inflight, net,
                   tokenReturns, outcome, stderr>>

\* ------------------------------------------------ FeishuImageUploader
\* upload_from_reader, lines 74-78: the size check.
CheckSize ==
    /\ pc = "size_check"
    /\ IF SizeExceeds(reader)
       THEN Raised(Raise("ValueError", <<"Image size exceeds 10MB limit">>))
       ELSE /\ pc' = "token"
            /\ outcome' = outcome
    /\ UNCHANGED <<cfg, env, args, authResponse, uploadResponse, call, calls,
                   uploader, resolved, reader, bearer, inflight, net,
                   tokenReturns, stdout, stderr, exitCode>>

\* get_access_token returns tok: to its direct caller, or into the
\* Authorization header of upload_from_reader (line 83).
TokenReturned(tok) ==
    /\ tokenReturns' = Append(tokenReturns, tok)
    /\ IF call = "get_access_token"
       THEN /\ pc' = "idle"
            /\ outcome' = Return(tok)
            /\ bearer' = bearer
       ELSE /\ pc' = "upload_post"
            /\ outcome' = outcome
            /\ bearer' = tok

\* get_access_token, line 37: is the cached token used?
HasCachedToken(u) == Truthy(u._access_token)

\* get_access_token, lines 37-46: the cached token, or the POST to the auth
\* endpoint.
GetAccessToken ==
    /\ pc = "token"
    /\ IF HasCachedToken(uploader)
       THEN /\ TokenReturned(uploader._access_token)
            /\ UNCHANGED <<inflight, net>>
       ELSE /\ inflight' = Request("POST", AUTH_ENDPOINT, AUTH_TIMEOUT, -1, None)
            /\ net' = Append(net, inflight')
            /\ pc' = "auth_wait"
            /\ UNCHANGED <<tokenReturns, outcome, bearer>>
    /\ UNCHANGED <<cfg, env, args, authResponse, uploadResponse, call, calls,
                   uploader, resolved, reader, stdout, stderr, exitCode>>

\* A variant of AuthOutcome that does not look at the answer's code.
AuthOutcomeIgnoringCode(resp) ==
    IF resp.kind = "connection_error"
    THEN Raise("ConnectionError", <<"connection_error">>)
    ELSE IF resp.kind = "not_json"
    THEN Raise("JSONDecodeError", <<"Expecting value">>)
    ELSE Return(resp.app_access_token)

\* get_access_token, lines 46-53, on the auth endpoint's answer.
AuthOutcome(resp) ==
    IF resp.kind = "connection_error"
    THEN Raise("ConnectionError", <<"connection_error">>)
    ELSE IF resp.kind = "not_json"
    THEN Raise("JSONDecodeError", <<"Expecting value">>)
    ELSE IF resp.code # 0
    THEN Raise("RuntimeError", <<"Failed to get access token: ", resp.msg>>)
    ELSE Return(resp.app_access_token)

AuthResponse ==
    /\ pc = "auth_wait"
    /\ inflight' = NoCall
    /\ \E resp \in AuthResponses :
         LET o == AuthOutcome(resp) IN
         /\ authResponse' = resp
         /\ IF o.kind = "return"
            THEN /\ uploader' = [uploader EXCEPT !._access_token = o.value]
                 /\ TokenReturned(o.value)
            ELSE /\ Raised(o)
                 /\ UNCHANGED <<uploader, tokenReturns, bearer>>
    /\ UNCHANGED <<cfg, env, args, uploadResponse, call, calls, resolved, reader,
                   net, stdout, stderr, exitCode>>

\* upload_from_reader, lines 81-92: the POST to the upload endpoint.
PostUpload ==
    /\ pc = "upload_post"
    /\ inflight' = Request("POST", UPLOAD_ENDPOINT, UPLOAD_TIMEOUT, reader, bearer)
    /\ net' = Append(net, inflight')
    /\ pc' = "upload_wait"
    /\ UNCHANGED <<cfg, env, args, authResponse, uploadResponse, call, calls,
                   uploader, resolved, reader, bearer, tokenReturns, outcome,
                   stdout, stderr, exitCode>>

\* A variant of UploadOutcome that does not look at the answer's code.
UploadOutcomeIgnoringCode(resp) ==
    IF resp.kind = "connection_error"
    THEN Raise("ConnectionError", <<"connection_error">>)
    ELSE IF resp.kind = "not_json"
    THEN Raise("JSONDecodeError", <<"Expecting value">>)
    ELSE Return(resp.image_key)

\* upload_from_reader, lines 92-98, on the upload endpoint's answer.
UploadOutcome(resp) ==
    IF resp.kind = "connection_error"
    THEN Raise("ConnectionError", <<"connection_error">>)
    ELSE IF resp.kind = "not_json"
    THEN Raise("JSONDecodeError", <<"Expecting value">>)
    ELSE IF resp.code # 0
    THEN Raise("RuntimeError", <<"Upload failed: ", resp.msg>>)
    ELSE IF ~resp.has_data
    THEN Raise("KeyError", <<"'data'">>)
    ELSE Return(resp.image_key)

UploadResponse ==
    /\ pc = "upload_wait"
    /\ inflight' = NoCall
    /\ \E resp \in UploadResponses :
         /\ uploadResponse' = resp
         /\ outcome' = UploadOutcome(resp)
         /\ pc' = After(outcome')
    /\ UNCHANGED <<cfg, env, args, authResponse, call, calls, uploader, resolved,
                   reader, bearer, net, tokenReturns, stdout, stderr, exitCode>>

\* ------------------------------------------------------ main's output
\* main, lines 212-218: what a successful run prints.
SuccessOutput(a, image_key) ==
    IF a.output = "json" THEN JsonSuccess(image_key)
    ELSE IF a.quiet THEN TextLine(<<image_key>>)
    ELSE TextLine(<<"image_key: ", image_key>>)

Output ==
    /\ pc = "output"
    /\ stdout' = Append(stdout, SuccessOutput(args, outcome.value))
    /\ exitCode' = 0
    /\ pc' = "exited"
    /\ UNCHANGED <<cfg, env, args, authResponse, uploadResponse, call, calls,
                   uploader, resolved, reader, bearer, inflight, net,
                   tokenReturns, outcome, stderr>>

\* main, lines 220-225: the except clause.
Except ==
    /\ pc = "except"
    /\ stderr' = Append(stderr, <<"Error: ">> \o outcome.msg)
    /\ stdout' = IF args.output = "json"
                 THEN Append(stdout, JsonError(outcome.msg)) ELSE stdout
    /\ exitCode' = 1
    /\ pc' = "exited"
    /\ UNCHANGED <<cfg, env, args, authResponse, uploadResponse, call, calls,
                   uploader, resolved, reader, bearer, inflight, net,
                   tokenReturns, outcome>>

Next ==
    \/ LoadConfig
    \/ UploadFromUrl
    \/ GetResponse
    \/ UploadFromFile
    \/ UploadFromBase64
    \/ Base64Missing
    \/ PrintHelp
    \/ CheckSize
    \/ GetAccessToken
    \/ AuthResponse
    \/ PostUpload
    \/ UploadResponse
    \/ Output
    \/ Except

\* One run of the script.
Spec == Init /\ [][Next]_vars

\* ------------------------------------------- one instance, many calls
\* A FeishuImageUploader right after __init__ (lines 30-33), its methods
\* called one after the other by the importing code.
InitApi ==
    /\ cfg = [exists |-> FALSE, parses |-> FALSE, app_id |-> None, app_secret |-> None]
    /\ env = [FEISHU_APP_ID |-> "env_id", FEISHU_APP_SECRET |-> "env_secret"]
    /\ args = [input |-> NoText, url |-> NoText, base64 |-> FALSE,
               output |-> "key", quiet |-> FALSE]
    /\ pc = "idle"
    /\ call = "none"
    /\ calls = 0
    /\ uploader = [app_id |-> "env_id", app_secret |-> "env_secret",
                   _access_token |-> None]
    /\ resolved = Unresolved
    /\ reader = -1
    /\ bearer = None
    /\ inflight = NoCall
    /\ net = <<>>
    /\ tokenReturns = <<>>
    /\ outcome = NoOutcome
    /\ authResponse = NoAuthResponse
    /\ uploadResponse = NoUploadResponse
    /\ stdout = <<>>
    /\ stderr = <<>>
    /\ exitCode = -1

\* uploader.get_access_token()
ApiGetAccessToken ==
    /\ pc = "idle"
    /\ calls < MaxCalls
    /\ calls' = calls + 1
    /\ call' = "get_access_token"
    /\ outcome' = NoOutcome
    /\ pc' = "token"
    /\ UNCHANGED <<cfg, env, args, authResponse, uploadResponse, uploader,
                   resolved, reader, bearer, inflight, net, tokenReturns, stdout,
                   stderr, exitCode>>

\* uploader.upload_from_reader(io.BytesIO(<n bytes>))
ApiUploadFromReader ==
    /\ pc = "idle"
    /\ calls < MaxCalls
    /\ calls' = calls + 1
    /\ call' = "upload_from_reader"
    /\ outcome' = NoOutcome
    /\ \E n \in Sizes : reader' = n
    /\ pc' = "size_check"
    /\ UNCHANGED <<cfg, env, args, authResponse, uploadResponse, uploader,
                   resolved, bearer, inflight, net, tokenReturns, stdout, stderr,
                   exitCode>>

NextApi ==
    \/ ApiGetAccessToken
    \/ ApiUploadFromReader
    \/ CheckSize
    \/ GetAccessToken
    \/ AuthResponse
    \/ PostUpload
    \/ UploadResponse

\* One uploader instance under MaxCalls successive calls.
SpecApi == InitApi /\ [][NextApi]_vars

\* =============================================================== claims
AuthPosts == Cardinality({i \in DOMAIN net : net[i].endpoint = AUTH_ENDPOINT})
UploadPosts == Cardinality({i \in DOMAIN net : net[i].endpoint = UPLOAD_ENDPOINT})

\* C1 (as claimed): on one instance, once a get_access_token call has
\* succeeded, no later call issues a POST to the auth endpoint and every later
\* call returns the value the first one returned.
C1_OneAuthPostAfterSuccess ==
    [][Len(tokenReturns) >= 1 =>
         /\ AuthPosts' = AuthPosts
         /\ \A i \in DOMAIN tokenReturns' : tokenReturns'[i] = tokenReturns[1]]_vars

\* C2: no POST to the upload endpoint ever carries a buffer larger than
\* 10,485,760 bytes: past the size check, whatever the variant, the resolved
\* buffer is within the limit, and an oversize buffer ends in the size error.
C2_OversizeNeverUploaded ==
    /\ \A i \in DOMAIN net :
         net[i].endpoint = UPLOAD_ENDPOINT => net[i].size >= 0 /\ net[i].size <= 10485760
    /\ pc \in {"token", "auth_wait", "upload_post", "upload_wait", "output"}
         => reader >= 0 /\ reader <= 10485760
    /\ (reader > 10485760 /\ pc \in {"except", "exited"})
         => outcome.type = "ValueError" /\ UploadPosts = 0

\* C2's case: an oversize inline payload was resolved and rejected, and the run
\* ended with no upload request.
C2_Witness ==
    /\ resolved.variant = "base64"
    /\ reader = 10485761
    /\ pc = "exited"
    /\ outcome.type = "ValueError"
    /\ UploadPosts = 0

\* C3: after an auth response with a non-zero code, get_access_token has
\* raised the error carrying the server's msg, no POST to the upload endpoint
\* is issued, the auth call is not repeated, and the run ends with exit 1.
C3_AuthErrorStopsRun ==
    (authResponse.kind = "json" /\ authResponse.code # 0) =>
        /\ outcome = Raise("RuntimeError",
                           <<"Failed to get access token: ", authResponse.msg>>)
        /\ UploadPosts = 0
        /\ AuthPosts = 1
        /\ tokenReturns = <<>>
        /\ pc \in {"except", "exited"}
        /\ pc = "exited" => exitCode = 1 /\ stderr = <<<<"Error: ">> \o outcome.msg>>

C3_Witness ==
    /\ authResponse.kind = "json"
    /\ authResponse.code # 0
    /\ authResponse.msg = "msg_b"
    /\ pc = "exited"
    /\ exitCode = 1

\* A base64 encoding (RFC 4648, padded): quads of alphabet characters, the last
\* quad ending in at most two "=".
IsBase64Encoding(s) ==
    LET t == s.text
        n == Len(t)
    IN  /\ ~s.isNone
        /\ n % 4 = 0
        /\ \A i \in 1..n :
             \/ t[i] \in B64Chars
             \/ t[i] = "=" /\ i >= n - 1 /\ t[n] = "="

\* C4 (as claimed): an inline payload that is not a base64 encoding always
\* ends in a decode error: no buffer is produced from it and nothing is uploaded.
C4_MalformedBase64Rejected ==
    (resolved.variant = "base64" /\ ~IsBase64Encoding(resolved.source)) =>
        /\ outcome.kind = "raise"
        /\ outcome.type = "binascii.Error"
        /\ reader = -1
        /\ UploadPosts = 0

\* C5: the boundary is inclusive and the same for the three variants: past the
\* size check a buffer of exactly 10,485,760 bytes has gone on towards the
\* upload (no size error), and one of 10,485,761 bytes has been rejected with
\* the size-limit error.
C5_InclusiveBoundary ==
    (resolved.variant \in {"file", "url", "base64"} /\ pc # "size_check") =>
        /\ reader = 10485760 =>
             /\ outcome.type # "ValueError"
             /\ pc \in {"token", "auth_wait", "upload_post", "upload_wait",
                        "output", "except", "exited"}
             /\ pc \in {"upload_wait", "output"} => net[Len(net)].size = 10485760
        /\ reader = 10485761 =>
             /\ outcome = Raise("ValueError", <<"Image size exceeds 10MB limit">>)
             /\ pc \in {"except", "exited"}

\* C5's case: an inline payload decoding to exactly 10,485,760 bytes is in the
\* upload request.
C5_Witness ==
    /\ resolved.variant = "base64"
    /\ reader = 10485760
    /\ pc = "upload_wait"
    /\ inflight.endpoint = UPLOAD_ENDPOINT
    /\ inflight.size = 10485760

\* C6 (as claimed): with --output json a run that ended printed, on stdout,
\* the success envelope and exited 0, or the error envelope and exited 1.
C6_JsonEnvelope ==
    (pc = "exited" /\ args.output = "json") =>
        \/ /\ exitCode = 0
           /\ outcome.kind = "return"
           /\ stdout = <<JsonSuccess(outcome.value)>>
        \/ /\ exitCode = 1
           /\ Len(stdout) = 1
           /\ stdout[1].kind = "json"
           /\ stdout[1].code = -1

\* C7 (as claimed): every network call issued carries a finite timeout.
C7_EveryCallHasTimeout ==
    \A i \in DOMAIN net : net[i].timeout # None

\* C8: a run issues at most one POST to the upload endpoint; an upload that
\* failed (no answer, an answer that is not JSON, a non-zero code) is not
\* repeated and ends the run in failure with no image key; a zero code returns
\* exactly the image_key of the answer's data.
C8_SingleUploadNoRetry ==
    /\ UploadPosts <= 1
    /\ uploadResponse.kind # "none" =>
         /\ UploadPosts = 1
         /\ inflight = NoCall
         /\ IF uploadResponse.kind = "json" /\ uploadResponse.code = 0
               /\ uploadResponse.has_data
            THEN /\ outcome = Return(uploadResponse.image_key)
                 /\ pc \in {"output", "exited"}
                 /\ pc = "exited" => exitCode = 0
            ELSE /\ outcome.kind = "raise"
                 /\ outcome.value = None
                 /\ pc \in {"except", "exited"}
                 /\ pc = "exited" =>
                      /\ exitCode = 1
                      /\ \A i \in DOMAIN stdout : stdout[i].image_key = None

\* C8's case: the upload endpoint answered a non-zero code and the run ended.
C8_Witness ==
    /\ uploadResponse.kind = "json"
    /\ uploadResponse.code # 0
    /\ pc = "exited"
    /\ UploadPosts = 1

\* The claim's prefix: the text begins with http:// or https://.
HasHttpScheme(s) ==
    LET t == s.text IN
    /\ s.rep = 0
    /\ \/ Len(t) >= 7 /\ SubSeq(t, 1, 7) = <<"h", "t", "t", "p", ":", "/", "/">>
       \/ Len(t) >= 8 /\ SubSeq(t, 1, 8) = <<"h", "t", "t", "p", "s", ":", "/", "/">>

\* C9: a positional input given with neither --url nor --base64 is fetched as
\* a URL if and only if it begins with http:// or https://, and opened as a
\* local file otherwise; the inline variant is taken only with --base64.
C9_VariantSelection ==
    /\ resolved.variant = "base64" => args.base64
    /\ (args.url.isNone /\ ~args.base64 /\ TruthyText(args.input)
        /\ pc \notin {"main", "dispatch"} /\ uploader # NoUploader) =>
         /\ resolved.source = args.input
         /\ resolved.variant = IF HasHttpScheme(args.input) THEN "url" ELSE "file"
         /\ resolved.variant = "url" => net # <<>> /\ net[1].method = "GET"
         /\ resolved.variant = "file" =>
              \A i \in DOMAIN net : net[i].method # "GET"

\* C9's case: a positional https:// input without flags was fetched.
C9_Witness ==
    /\ args.url.isNone
    /\ ~args.base64
    /\ args.input = Str(<<"h", "t", "t", "p", "s", ":", "/", "/", "a">>)
    /\ resolved.variant = "url"
    /\ pc = "size_check"

\* A layer holds a complete credential pair.
FileComplete == cfg.exists /\ cfg.parses /\ Truthy(cfg.app_id) /\ Truthy(cfg.app_secret)
EnvComplete == Truthy(env.FEISHU_APP_ID) /\ Truthy(env.FEISHU_APP_SECRET)

\* C10 (as claimed): past load_config, the credentials are the config file's
\* pair when it is complete, else the environment's pair when that is
\* complete; and the run has failed in load_config (exit 1, no network call)
\* exactly when neither layer holds a complete pair.
C10_LayeredConfig ==
    pc # "main" =>
        /\ FileComplete =>
             uploader.app_id = cfg.app_id /\ uploader.app_secret = cfg.app_secret
        /\ (~FileComplete /\ EnvComplete) =>
             /\ uploader.app_id = env.FEISHU_APP_ID
             /\ uploader.app_secret = env.FEISHU_APP_SECRET
        /\ (uploader = NoUploader) <=> (~FileComplete /\ ~EnvComplete)
        /\ uploader = NoUploader =>
             /\ pc = "exited"
             /\ exitCode = 1
             /\ net = <<>>

====
